---- MODULE Spec2Model ----
(***************************************************************************)
(* A model of ConsistentHashRing (src/consistent_hash_ring.py): the sorted *)
(* list `ring`, the map `vnode_map` from vnode hash to owner, the registry *)
(* `nodes`, and the four public operations.  Every public operation runs   *)
(* under `with self.lock`, so each call is one atomic action.              *)
(*                                                                         *)
(* Strings.  The only strings the ring ever hashes have the shape          *)
(* f"{id}-{i}" (a vnode key, or a lookup key such as "key-0") or           *)
(* f"{id}-{i}_{c}" (a salted vnode key, c >= 1).  A string is modelled as  *)
(* the triple <<id, i, c>>, c = 0 standing for the unsalted form.          *)
(*                                                                         *)
(* Hash function.  `hash_function` is injected at construction and may be  *)
(* any deterministic function from strings to integers.  The model keeps   *)
(* the part of its graph that has been evaluated so far: the first         *)
(* evaluation of a string picks any value of HashSpace, every later        *)
(* evaluation of the same string returns that value.                       *)
(***************************************************************************)
EXTENDS Integers, Sequences, FiniteSets, TLC

\* ---- bounds of the model -------------------------------------------------
\* hash values range over 0..MaxHash (the program: 0..2^64-1)
MaxHash == 3
\* largest salt a collision walk may reach; a call whose walk would need a
\* larger salt is not taken
MaxSalt == 1
\* the number of add_node calls that admit a node in one behaviour
MaxAdds == 2
\* the same, where only add_node and remove_node are called
MaxJoins == 3
\* constructor arguments (the program's defaults are 100 and 3)
vnode_count == 2
replication_factor == 2

NodeIds == {"node-a", "node-b"}
\* the node ids where only add_node and remove_node are called
MemberIds == NodeIds \cup {"node-c"}
\* weights are positive rationals num/den: 1/4, 1/2 and 1
Weights == {[num |-> 1, den |-> 4], [num |-> 1, den |-> 2], [num |-> 1, den |-> 1]}
\* and the weights there: those of at most one virtual node
LightWeights == {w \in Weights : (vnode_count * w.num) \div w.den <= 1}
Keys == {<<"key", 0, 0>>}
HashSpace == 0..MaxHash
\* replica_count: <<>> is None, <<n>> is the integer n
ReplicaCounts == {<<>>} \cup {<<n>> : n \in 1..(Cardinality(NodeIds) + 1)}

VARIABLES
    ring,           \* self.ring: list of vnode hashes
    vnode_map,      \* self.vnode_map: vnode hash -> node id
    nodes,          \* self.nodes: node id -> [weight]
    hash_function,  \* the evaluated part of self.hash_function
    op,             \* the last call: name and arguments
    ret,            \* what the last call returned and printed
    round_trip,     \* history: the ring before the last admission
    adds,           \* history: the number of admissions so far
    answered,       \* history: what get_node answered since the last mutation
    lock,           \* self.lock: TRUE while a thread holds it
    frame,          \* per thread: the call it is inside and the call's locals
    worker          \* per thread: its arguments and the next call of its program

vars == <<ring, vnode_map, nodes, hash_function, op, ret, round_trip, adds,
          answered, lock, frame, worker>>

EmptyMap == [x \in {} |-> x]

Range(s) == {s[j] : j \in 1..Len(s)}

\* d[k] = v on a dict
dict_set(d, k, v) ==
    [x \in DOMAIN d \cup {k} |-> IF x = k THEN v ELSE d[x]]

\* ---- strings and hashing -------------------------------------------------
vnode_key(node_id, i) == <<node_id, i, 0>>

salted(vnode_key_, collision_count) ==
    <<vnode_key_[1], vnode_key_[2], collision_count>>

\* The hash functions that agree with everything h has returned so far and
\* are defined on s.
\* a hash function that is not a function: every evaluation draws a value
Hashes_redrawn(h, s) == {dict_set(h, s, v) : v \in HashSpace}

Hashes(h, s) ==
    IF s \in DOMAIN h THEN {h} ELSE {dict_set(h, s, v) : v \in HashSpace}

total_vnodes(weight) == (vnode_count * weight.num) \div weight.den

\* ---- queries -------------------------------------------------------------
\* bisect_right in place of bisect_left
RECURSIVE bisect_right_loop(_, _, _, _)
bisect_right_loop(a, x, lo, hi) ==
    IF lo < hi
    THEN LET mid == (lo + hi) \div 2
         IN  IF a[mid + 1] <= x
             THEN bisect_right_loop(a, x, mid + 1, hi)
             ELSE bisect_right_loop(a, x, lo, mid)
    ELSE lo

RECURSIVE bisect_loop(_, _, _, _)
bisect_loop(a, x, lo, hi) ==
    IF lo < hi
    THEN LET mid == (lo + hi) \div 2
         IN  IF a[mid + 1] < x
             THEN bisect_loop(a, x, mid + 1, hi)
             ELSE bisect_loop(a, x, lo, mid)
    ELSE lo

bisect_left(a, x) == bisect_loop(a, x, 0, Len(a))

\* the key hash modulo the ring length, without the ordered search
landing_idx_modulo(r, key_hash) == key_hash % Len(r)

\* the landing index (0-based) of a key hash; the ring is not empty
landing_idx(r, key_hash) == bisect_left(r, key_hash) % Len(r)

\* the body of get_node after the hash is known; the ring is not empty
\* lookup that asks vnode_map for the key's own hash, not for the ring entry
lookup_by_key_hash(r, vmap, key_hash) ==
    IF key_hash \in DOMAIN vmap THEN vmap[key_hash] ELSE "None"

lookup(r, vmap, key_hash) == vmap[r[landing_idx(r, key_hash) + 1]]

\* The while loop of get_nodes_for_key.  In `fuel` = len(ring) iterations the
\* walk has seen every ring entry and idx is back at its start, so a loop
\* that has not finished by then repeats the same iterations for ever.
RECURSIVE collect(_, _, _, _, _, _)
collect(r, vmap, idx, result, replica_count, fuel) ==
    IF ~(Len(result) < replica_count)
    THEN [terminates |-> TRUE, value |-> result]
    ELSE IF fuel = 0
    THEN [terminates |-> FALSE, value |-> result]
    ELSE LET node_id == vmap[r[idx + 1]]
             result2 == IF node_id \notin Range(result)
                        THEN Append(result, node_id)
                        ELSE result
         IN  collect(r, vmap, (idx + 1) % Len(r), result2, replica_count, fuel - 1)

\* ---- admission -----------------------------------------------------------
\* The collision walk of add_node for one vnode key: advance the salt while
\* the hash is occupied by anyone.
\* the walk without its while loop: the first hash is taken as it is
add_walk_unchecked(h, vmap, vk, collision_count) ==
    {[h |-> g, vnode_hash |-> g[salted(vk, collision_count)], collided |-> FALSE]
     : g \in Hashes(h, salted(vk, collision_count))}

\* the walk that goes past the hashes of the node itself only
RECURSIVE add_walk_past_own(_, _, _, _)
add_walk_past_own(h, vmap, vk, collision_count) ==
    UNION { IF /\ g[salted(vk, collision_count)] \in DOMAIN vmap
               /\ vmap[g[salted(vk, collision_count)]] = vk[1]
            THEN IF collision_count < MaxSalt
                 THEN add_walk_past_own(g, vmap, vk, collision_count + 1)
                 ELSE {}
            ELSE {[h |-> g, vnode_hash |-> g[salted(vk, collision_count)],
                   collided |-> collision_count > 0]}
          : g \in Hashes(h, salted(vk, collision_count)) }

RECURSIVE add_walk(_, _, _, _)
add_walk(h, vmap, vk, collision_count) ==
    UNION { IF g[salted(vk, collision_count)] \in DOMAIN vmap
            THEN IF collision_count < MaxSalt
                 THEN add_walk(g, vmap, vk, collision_count + 1)
                 ELSE {}
            ELSE {[h |-> g, vnode_hash |-> g[salted(vk, collision_count)],
                   collided |-> collision_count > 0]}
          : g \in Hashes(h, salted(vk, collision_count)) }

\* The for loop of add_node from index i on.
RECURSIVE add_vnodes(_, _, _, _, _, _, _)
add_vnodes(h, r, vmap, node_id, i, total, collided) ==
    IF i >= total
    THEN {[h |-> h, ring |-> r, vnode_map |-> vmap, collided |-> collided]}
    ELSE UNION { add_vnodes(w.h, Append(r, w.vnode_hash),
                            dict_set(vmap, w.vnode_hash, node_id),
                            node_id, i + 1, total, collided \/ w.collided)
               : w \in add_walk(h, vmap, vnode_key(node_id, i), 0) }

sort(r) == SortSeq(r, LAMBDA a, b : a < b)

\* ---- removal -------------------------------------------------------------
\* The collision walk of remove_node for one vnode key: advance the salt
\* while the hash is occupied by a different node.
RECURSIVE remove_walk(_, _, _, _, _)
remove_walk(h, vmap, node_id, vk, collision_count) ==
    UNION { IF /\ g[salted(vk, collision_count)] \in DOMAIN vmap
               /\ vmap[g[salted(vk, collision_count)]] # node_id
            THEN IF collision_count < MaxSalt
                 THEN remove_walk(g, vmap, node_id, vk, collision_count + 1)
                 ELSE {}
            ELSE {[h |-> g, vnode_hash |-> g[salted(vk, collision_count)]]}
          : g \in Hashes(h, salted(vk, collision_count)) }

\* The for loop of remove_node from index i on.
RECURSIVE remove_vnodes(_, _, _, _, _, _, _)
remove_vnodes(h, vmap, node_id, i, total, hashes_to_remove, not_found) ==
    IF i >= total
    THEN {[h |-> h, hashes_to_remove |-> hashes_to_remove, not_found |-> not_found]}
    ELSE UNION { IF w.vnode_hash \in DOMAIN vmap /\ vmap[w.vnode_hash] = node_id
                 THEN remove_vnodes(w.h, vmap, node_id, i + 1, total,
                                    hashes_to_remove \cup {w.vnode_hash}, not_found)
                 ELSE remove_vnodes(w.h, vmap, node_id, i + 1, total,
                                    hashes_to_remove, TRUE)
               : w \in remove_walk(h, vmap, node_id, vnode_key(node_id, i), 0) }

\* the rebuild of ring and vnode_map without the marked hashes
new_ring(r, hashes_to_remove) ==
    SelectSeq(r, LAMBDA vnode_hash : vnode_hash \notin hashes_to_remove)

\* the rebuild that drops the hashes from the ring only
vnode_map_kept(r, vmap, hashes_to_remove) == vmap

new_vnode_map(r, vmap, hashes_to_remove) ==
    [vnode_hash \in Range(new_ring(r, hashes_to_remove)) |-> vmap[vnode_hash]]

\* ---- the state machine ---------------------------------------------------
NoKey == <<"", 0, 0>>

Call(name, node_id, key, replica_count) ==
    [name |-> name, node_id |-> node_id, key |-> key, replica_count |-> replica_count]

Returned(value, warnings) ==
    [terminates |-> TRUE, value |-> value, warnings |-> warnings]

Idle == [phase |-> "idle", node_id |-> "", ring |-> <<>>, vnode_map |-> EmptyMap]

\* the threads of test_concurrency (there: ten)
Threads == {1, 2}
\* a thread that is inside no call
NoFrame == [line |-> "out"]
\* a thread that has not been started
NoWorker == [next |-> "unstarted"]

Init ==
    /\ ring = <<>>
    /\ vnode_map = EmptyMap
    /\ nodes = EmptyMap
    /\ hash_function = EmptyMap
    /\ op = Call("__init__", "", NoKey, <<>>)
    /\ ret = Returned(<<>>, {})
    /\ round_trip = Idle
    /\ adds = 0
    /\ answered = EmptyMap
    /\ lock = FALSE
    /\ frame = [t \in Threads |-> NoFrame]
    /\ worker = [t \in Threads |-> NoWorker]

\* add_node that stores the weight it was given even for a known node
add_node_reweigh(node_id, weight) ==
    /\ op' = Call("add_node", node_id, NoKey, <<>>)
    /\ IF node_id \in DOMAIN nodes
       THEN /\ ret' = Returned(<<>>, {"already exists"})
            /\ nodes' = dict_set(nodes, node_id, [weight |-> weight])
            /\ UNCHANGED <<ring, vnode_map, hash_function, adds>>
       ELSE \E o \in add_vnodes(hash_function, ring, vnode_map, node_id, 0,
                                total_vnodes(weight), FALSE) :
                /\ adds' = adds + 1
                /\ nodes' = dict_set(nodes, node_id, [weight |-> weight])
                /\ ring' = sort(o.ring)
                /\ vnode_map' = o.vnode_map
                /\ hash_function' = o.h
                /\ ret' = Returned(<<>>, IF o.collided THEN {"collision"} ELSE {})

add_node(node_id, weight) ==
    /\ op' = Call("add_node", node_id, NoKey, <<>>)
    /\ IF node_id \in DOMAIN nodes
       THEN /\ ret' = Returned(<<>>, {"already exists"})
            /\ UNCHANGED <<ring, vnode_map, nodes, hash_function, adds>>
       ELSE \E o \in add_vnodes(hash_function, ring, vnode_map, node_id, 0,
                                total_vnodes(weight), FALSE) :
                /\ adds' = adds + 1
                /\ nodes' = dict_set(nodes, node_id, [weight |-> weight])
                /\ ring' = sort(o.ring)
                /\ vnode_map' = o.vnode_map
                /\ hash_function' = o.h
                /\ ret' = Returned(<<>>, IF o.collided THEN {"collision"} ELSE {})

remove_node(node_id) ==
    /\ op' = Call("remove_node", node_id, NoKey, <<>>)
    /\ IF node_id \notin DOMAIN nodes
       THEN /\ ret' = Returned(<<>>, {"does not exist"})
            /\ UNCHANGED <<ring, vnode_map, nodes, hash_function, adds>>
       ELSE \E o \in remove_vnodes(hash_function, vnode_map, node_id, 0,
                                   total_vnodes(nodes[node_id].weight), {}, FALSE) :
                /\ ring' = new_ring(ring, o.hashes_to_remove)
                /\ vnode_map' = new_vnode_map(ring, vnode_map, o.hashes_to_remove)
                /\ nodes' = [n \in DOMAIN nodes \ {node_id} |-> nodes[n]]
                /\ UNCHANGED adds
                /\ hash_function' = o.h
                /\ ret' = Returned(<<>>, IF o.not_found THEN {"not found during removal"}
                                         ELSE {})

get_node(key) ==
    /\ op' = Call("get_node", "", key, <<>>)
    /\ UNCHANGED <<ring, vnode_map, nodes, adds>>
    /\ IF ring = <<>>
       THEN /\ ret' = Returned(<<>>, {"no nodes"})
            /\ UNCHANGED hash_function
       ELSE \E g \in Hashes(hash_function, key) :
                /\ hash_function' = g
                /\ ret' = Returned(<<lookup(ring, vnode_map, g[key])>>, {})

get_nodes_for_key(key, replica_count) ==
    /\ op' = Call("get_nodes_for_key", "", key, replica_count)
    /\ UNCHANGED <<ring, vnode_map, nodes, adds>>
    /\ IF ring = <<>>
       THEN /\ ret' = Returned(<<>>, {"no nodes"})
            /\ UNCHANGED hash_function
       ELSE LET requested == IF replica_count = <<>> THEN replication_factor
                             ELSE replica_count[1]
                exceeds == requested > Cardinality(DOMAIN nodes)
                clamped == IF exceeds THEN Cardinality(DOMAIN nodes) ELSE requested
            IN  \E g \in Hashes(hash_function, key) :
                    LET walk == collect(ring, vnode_map, landing_idx(ring, g[key]),
                                        <<>>, clamped, Len(ring))
                    IN  /\ hash_function' = g
                        /\ ret' = [terminates |-> walk.terminates,
                                   value |-> walk.value,
                                   warnings |-> IF exceeds
                                                THEN {"replica count exceeds"}
                                                ELSE {}]

\* a call that never returns keeps the lock: no later call gets in
Hung == ~ret.terminates

\* calls made one after the other from a single thread
unthreaded == UNCHANGED <<lock, frame, worker>>
\* and without the histories
untracked == UNCHANGED <<round_trip, answered>> /\ unthreaded

\* add_node may admit a node while fewer than max_adds have been admitted
may_add(node_id, max_adds) == node_id \in DOMAIN nodes \/ adds < max_adds

Next ==
    \/ \E node_id \in NodeIds, weight \in Weights :
           /\ ~Hung /\ may_add(node_id, MaxAdds)
           /\ add_node(node_id, weight) /\ untracked
    \/ \E node_id \in NodeIds :
           ~Hung /\ remove_node(node_id) /\ untracked
    \/ \E key \in Keys :
           ~Hung /\ get_node(key) /\ untracked
    \/ \E key \in Keys, replica_count \in ReplicaCounts :
           ~Hung /\ get_nodes_for_key(key, replica_count) /\ untracked

Spec == Init /\ [][Next]_vars

\* ---- membership only: add_node and remove_node over three node ids
NextMembership ==
    \/ \E node_id \in MemberIds, weight \in LightWeights :
           /\ may_add(node_id, MaxJoins)
           /\ add_node(node_id, weight) /\ untracked
    \/ \E node_id \in MemberIds :
           remove_node(node_id) /\ untracked

SpecMembership == Init /\ [][NextMembership]_vars

\* ---- the round trip: the same calls, with the history of the last admission
track_add(node_id) ==
    round_trip' = IF node_id \in DOMAIN nodes THEN round_trip
                  ELSE [phase |-> "added", node_id |-> node_id,
                        ring |-> ring, vnode_map |-> vnode_map]

track_remove(node_id) ==
    round_trip' = IF node_id \notin DOMAIN nodes THEN round_trip
                  ELSE IF round_trip.phase = "added" /\ round_trip.node_id = node_id
                  THEN [round_trip EXCEPT !.phase = "removed"]
                  ELSE Idle

NextRoundTrip ==
    \/ \E node_id \in NodeIds, weight \in Weights :
           /\ ~Hung /\ may_add(node_id, MaxAdds)
           /\ add_node(node_id, weight) /\ track_add(node_id)
           /\ UNCHANGED answered /\ unthreaded
    \/ \E node_id \in NodeIds :
           /\ ~Hung /\ remove_node(node_id) /\ track_remove(node_id)
           /\ UNCHANGED answered /\ unthreaded
    \/ \E key \in Keys :
           ~Hung /\ get_node(key) /\ untracked
    \/ \E key \in Keys, replica_count \in ReplicaCounts :
           ~Hung /\ get_nodes_for_key(key, replica_count) /\ untracked

SpecRoundTrip == Init /\ [][NextRoundTrip]_vars

\* ---- the queries between two mutations: the same calls, with the history of
\* what get_node answered since ring, vnode_map or nodes last changed
track_mutation ==
    answered' = IF <<ring', vnode_map', nodes'>> = <<ring, vnode_map, nodes>>
                THEN answered
                ELSE EmptyMap

track_answer(key) ==
    answered' = IF key \in DOMAIN answered
                THEN [answered EXCEPT ![key].again = TRUE]
                ELSE dict_set(answered, key, [value |-> ret'.value, again |-> FALSE])

NextQueries ==
    \/ \E node_id \in NodeIds, weight \in Weights :
           /\ ~Hung /\ may_add(node_id, MaxAdds)
           /\ add_node(node_id, weight) /\ track_mutation
           /\ UNCHANGED round_trip /\ unthreaded
    \/ \E node_id \in NodeIds :
           /\ ~Hung /\ remove_node(node_id) /\ track_mutation
           /\ UNCHANGED round_trip /\ unthreaded
    \/ \E key \in Keys :
           /\ ~Hung /\ get_node(key) /\ track_answer(key)
           /\ UNCHANGED round_trip /\ unthreaded
    \/ \E key \in Keys, replica_count \in ReplicaCounts :
           ~Hung /\ get_nodes_for_key(key, replica_count) /\ untracked

SpecQueries == Init /\ [][NextQueries]_vars

\* ---- threads: every public method is `with self.lock:` around its body.  A
\* thread is outside every call, or inside a body at the statement that
\* frame[t].line names, the rest of frame[t] being its locals.  Taking the lock
\* and the first statements of the body are one step; so are the last
\* statement and the release.
at(t, line) == frame[t].line = line

goto(t, locals) == frame' = [frame EXCEPT ![t] = locals]

\* `with self.lock:` on entry: blocks while another thread holds the lock
acquire(t) == frame[t] = NoFrame /\ ~lock

\* the thread goes on inside the body, the lock released
hold_unlocked(t, locals) ==
    /\ lock' = FALSE
    /\ goto(t, locals)
    /\ UNCHANGED <<op, ret>>

\* the thread stays inside the with block
hold(t, locals) ==
    /\ lock' = TRUE
    /\ goto(t, locals)
    /\ UNCHANGED <<op, ret>>

\* leaving the body with the lock still held
leave_locked(t, call, value, warnings) ==
    /\ lock' = TRUE
    /\ goto(t, NoFrame)
    /\ op' = call
    /\ ret' = Returned(value, warnings)

\* `with self.lock:` on exit, by return or by falling off the end; op and ret
\* are the call that returned last and what it returned and printed
leave(t, call, value, warnings) ==
    /\ lock' = FALSE
    /\ goto(t, NoFrame)
    /\ op' = call
    /\ ret' = Returned(value, warnings)

\* add_node, lines 34-40: the lock, the duplicate check, the registration
add_node_register(t, node_id, weight) ==
    /\ acquire(t)
    /\ UNCHANGED <<ring, vnode_map, hash_function>>
    /\ IF node_id \in DOMAIN nodes
       THEN /\ leave(t, Call("add_node", node_id, NoKey, <<>>), <<>>,
                     {"already exists"})
            /\ UNCHANGED <<nodes, adds>>
       ELSE /\ nodes' = dict_set(nodes, node_id, [weight |-> weight])
            /\ adds' = adds + 1
            /\ hold(t, [line |-> "add_node.for", node_id |-> node_id,
                        total_vnodes |-> total_vnodes(weight), i |-> 0,
                        collided |-> FALSE])

\* add_node, lines 41-52: one iteration of the for loop
add_node_for(t) ==
    /\ at(t, "add_node.for")
    /\ frame[t].i < frame[t].total_vnodes
    /\ \E w \in add_walk(hash_function, vnode_map,
                          vnode_key(frame[t].node_id, frame[t].i), 0) :
           /\ hash_function' = w.h
           /\ ring' = Append(ring, w.vnode_hash)
           /\ vnode_map' = dict_set(vnode_map, w.vnode_hash, frame[t].node_id)
           /\ hold(t, [frame[t] EXCEPT !.i = @ + 1, !.collided = @ \/ w.collided])
    /\ UNCHANGED <<nodes, adds>>

\* add_node, lines 53-54: the sort after the loop, and the release
add_node_sort(t) ==
    /\ at(t, "add_node.for")
    /\ frame[t].i >= frame[t].total_vnodes
    /\ ring' = sort(ring)
    /\ leave(t, Call("add_node", frame[t].node_id, NoKey, <<>>), <<>>,
             IF frame[t].collided THEN {"collision"} ELSE {})
    /\ UNCHANGED <<vnode_map, nodes, hash_function, adds>>

\* remove_node, lines 98-135: the lock, the check, the marking of the hashes
\* and the rebuild of both structures in locals
remove_node_mark(t, node_id) ==
    /\ acquire(t)
    /\ UNCHANGED <<ring, vnode_map, nodes, adds>>
    /\ IF node_id \notin DOMAIN nodes
       THEN /\ leave(t, Call("remove_node", node_id, NoKey, <<>>), <<>>,
                     {"does not exist"})
            /\ UNCHANGED hash_function
       ELSE \E o \in remove_vnodes(hash_function, vnode_map, node_id, 0,
                                   total_vnodes(nodes[node_id].weight), {}, FALSE) :
                /\ hash_function' = o.h
                /\ hold(t, [line |-> "remove_node.ring", node_id |-> node_id,
                            new_ring |-> new_ring(ring, o.hashes_to_remove),
                            new_vnode_map |-> new_vnode_map(ring, vnode_map,
                                                            o.hashes_to_remove),
                            not_found |-> o.not_found])

\* remove_node, line 136: the assignment to self.ring
remove_node_ring(t) ==
    /\ at(t, "remove_node.ring")
    /\ ring' = frame[t].new_ring
    /\ hold(t, [line |-> "remove_node.vnode_map", node_id |-> frame[t].node_id,
                new_vnode_map |-> frame[t].new_vnode_map,
                not_found |-> frame[t].not_found])
    /\ UNCHANGED <<vnode_map, nodes, hash_function, adds>>

\* remove_node, line 137: the assignment to self.vnode_map
remove_node_vnode_map(t) ==
    /\ at(t, "remove_node.vnode_map")
    /\ vnode_map' = frame[t].new_vnode_map
    /\ hold(t, [line |-> "remove_node.del", node_id |-> frame[t].node_id,
                not_found |-> frame[t].not_found])
    /\ UNCHANGED <<ring, nodes, hash_function, adds>>

\* the last step without `del self.nodes[node_id]`
remove_node_del_omitted(t) ==
    /\ at(t, "remove_node.del")
    /\ leave(t, Call("remove_node", frame[t].node_id, NoKey, <<>>), <<>>,
             IF frame[t].not_found THEN {"not found during removal"} ELSE {})
    /\ UNCHANGED <<ring, vnode_map, nodes, hash_function, adds>>

\* remove_node, lines 138-141: the registry entry goes last, and the release
remove_node_del(t) ==
    /\ at(t, "remove_node.del")
    /\ nodes' = [n \in DOMAIN nodes \ {frame[t].node_id} |-> nodes[n]]
    /\ leave(t, Call("remove_node", frame[t].node_id, NoKey, <<>>), <<>>,
             IF frame[t].not_found THEN {"not found during removal"} ELSE {})
    /\ UNCHANGED <<ring, vnode_map, hash_function, adds>>

\* get_node, lines 57-65: the whole call
get_node_read(t, key) ==
    /\ acquire(t)
    /\ UNCHANGED <<ring, vnode_map, nodes, adds>>
    /\ IF ring = <<>>
       THEN /\ leave(t, Call("get_node", "", key, <<>>), <<>>, {"no nodes"})
            /\ UNCHANGED hash_function
       ELSE \E g \in Hashes(hash_function, key) :
                /\ hash_function' = g
                /\ leave(t, Call("get_node", "", key, <<>>),
                         <<lookup(ring, vnode_map, g[key])>>, {})

\* get_nodes_for_key, lines 70-95: the whole call; a while loop that never
\* ends keeps the thread at "get_nodes_for_key.while", inside the with block
get_nodes_for_key_read(t, key, replica_count) ==
    /\ acquire(t)
    /\ UNCHANGED <<ring, vnode_map, nodes, adds>>
    /\ IF ring = <<>>
       THEN /\ leave(t, Call("get_nodes_for_key", "", key, replica_count), <<>>,
                     {"no nodes"})
            /\ UNCHANGED hash_function
       ELSE LET requested == IF replica_count = <<>> THEN replication_factor
                             ELSE replica_count[1]
                exceeds == requested > Cardinality(DOMAIN nodes)
                clamped == IF exceeds THEN Cardinality(DOMAIN nodes) ELSE requested
            IN  \E g \in Hashes(hash_function, key) :
                    LET walk == collect(ring, vnode_map, landing_idx(ring, g[key]),
                                        <<>>, clamped, Len(ring))
                    IN  /\ hash_function' = g
                        /\ IF walk.terminates
                           THEN leave(t, Call("get_nodes_for_key", "", key,
                                              replica_count), walk.value,
                                      IF exceeds THEN {"replica count exceeds"}
                                      ELSE {})
                           ELSE hold(t, [line |-> "get_nodes_for_key.while",
                                         key |-> key])

\* ---- any thread makes any call, with the weights of at most one virtual node
NextThreads ==
    \/ \E t \in Threads, node_id \in NodeIds, weight \in LightWeights :
           /\ may_add(node_id, MaxAdds)
           /\ add_node_register(t, node_id, weight)
           /\ UNCHANGED <<round_trip, answered, worker>>
    \/ \E t \in Threads :
           add_node_for(t) /\ UNCHANGED <<round_trip, answered, worker>>
    \/ \E t \in Threads :
           add_node_sort(t) /\ UNCHANGED <<round_trip, answered, worker>>
    \/ \E t \in Threads, node_id \in NodeIds :
           remove_node_mark(t, node_id) /\ UNCHANGED <<round_trip, answered, worker>>
    \/ \E t \in Threads :
           remove_node_ring(t) /\ UNCHANGED <<round_trip, answered, worker>>
    \/ \E t \in Threads :
           remove_node_vnode_map(t) /\ UNCHANGED <<round_trip, answered, worker>>
    \/ \E t \in Threads :
           remove_node_del(t) /\ UNCHANGED <<round_trip, answered, worker>>
    \/ \E t \in Threads, key \in Keys :
           get_node_read(t, key) /\ UNCHANGED <<round_trip, answered, worker>>
    \/ \E t \in Threads, key \in Keys, replica_count \in ReplicaCounts :
           /\ get_nodes_for_key_read(t, key, replica_count)
           /\ UNCHANGED <<round_trip, answered, worker>>

SpecThreads == Init /\ [][NextThreads]_vars

\* ---- the threads of test_concurrency: after setUp has admitted the initial
\* nodes, every thread adds a node of its own, removes one of the initial
\* nodes, and then queries; every node has one virtual node
WorkerWeights == {w \in Weights : total_vnodes(w) = 1}

nodes_to_add(t) == IF t = 1 THEN "node-100" ELSE "node-101"

after(next) ==
    CASE next = "add_node" -> "remove_node"
      [] next = "remove_node" -> "get_node"
      [] next = "get_node" -> "get_nodes_for_key"
      [] next = "get_nodes_for_key" -> "done"

setUp(node_id, weight) ==
    /\ worker = [t \in Threads |-> NoWorker]
    /\ node_id \notin DOMAIN nodes
    /\ add_node(node_id, weight)
    /\ untracked

start(nodes_to_remove) ==
    /\ worker = [t \in Threads |-> NoWorker]
    /\ DOMAIN nodes = NodeIds
    /\ worker' = [t \in Threads |->
                     [next |-> "add_node", node_id_to_add |-> nodes_to_add(t),
                      node_id_to_remove |-> nodes_to_remove[t]]]
    /\ UNCHANGED <<ring, vnode_map, nodes, hash_function, op, ret, round_trip,
                   adds, answered, lock, frame>>

\* a thread whose call has returned goes on to its next call
returned(t) ==
    worker' = IF frame'[t] = NoFrame
              THEN [worker EXCEPT ![t].next = after(@)]
              ELSE worker

NextWorkers ==
    \/ \E node_id \in NodeIds, weight \in WorkerWeights : setUp(node_id, weight)
    \/ \E nodes_to_remove \in [Threads -> NodeIds] : start(nodes_to_remove)
    \/ \E t \in Threads, weight \in WorkerWeights :
           /\ worker[t].next = "add_node"
           /\ add_node_register(t, worker[t].node_id_to_add, weight)
           /\ returned(t) /\ UNCHANGED <<round_trip, answered>>
    \/ \E t \in Threads :
           add_node_for(t) /\ returned(t) /\ UNCHANGED <<round_trip, answered>>
    \/ \E t \in Threads :
           add_node_sort(t) /\ returned(t) /\ UNCHANGED <<round_trip, answered>>
    \/ \E t \in Threads :
           /\ worker[t].next = "remove_node"
           /\ remove_node_mark(t, worker[t].node_id_to_remove)
           /\ returned(t) /\ UNCHANGED <<round_trip, answered>>
    \/ \E t \in Threads :
           remove_node_ring(t) /\ returned(t) /\ UNCHANGED <<round_trip, answered>>
    \/ \E t \in Threads :
           remove_node_vnode_map(t) /\ returned(t) /\ UNCHANGED <<round_trip, answered>>
    \/ \E t \in Threads :
           remove_node_del(t) /\ returned(t) /\ UNCHANGED <<round_trip, answered>>
    \/ \E t \in Threads, key \in Keys :
           /\ worker[t].next = "get_node"
           /\ get_node_read(t, key)
           /\ returned(t) /\ UNCHANGED <<round_trip, answered>>
    \/ \E t \in Threads, key \in Keys :
           /\ worker[t].next = "get_nodes_for_key"
           /\ get_nodes_for_key_read(t, key, <<>>)
           /\ returned(t) /\ UNCHANGED <<round_trip, answered>>

SpecWorkers == Init /\ [][NextWorkers]_vars

\* ---- properties ---------------------------------------------------------
\* the hashes a node owns
owned(vmap, node_id) == {h \in DOMAIN vmap : vmap[h] = node_id}

\* what get_node returns for a key with the given hash: <<>> is None
owner_of(r, vmap, key_hash) ==
    IF r = <<>> THEN <<>> ELSE <<lookup(r, vmap, key_hash)>>

\* the last call was remove_node of a registered node
Removed == op.name = "remove_node" /\ "does not exist" \notin ret.warnings

\* the last call was add_node of an unregistered node
Added == op.name = "add_node" /\ "already exists" \notin ret.warnings

\* C1: every node in the registry owns exactly floor(vnode_count * weight)
\* hashes of vnode_map, after every call.
VnodeCountPerNode ==
    \A n \in DOMAIN nodes :
        Cardinality(owned(vnode_map, n)) = total_vnodes(nodes[n].weight)

\* C2: the node ids that own a hash in vnode_map are exactly the registered
\* node ids, after every call.
OwnersAreRegistry ==
    {vnode_map[h] : h \in DOMAIN vnode_map} = DOMAIN nodes

\* C3: once remove_node(n) of a registered n has returned, n owns no hash.
RemovedNodeOwnsNothing ==
    Removed => owned(vnode_map, op.node_id) = {}

\* C4: add_node(x, w) of an unregistered x followed by remove_node(x), with no
\* other mutation in between, leaves every key with the owner it had before.
RoundTripRestoresOwners ==
    round_trip.phase = "removed" =>
        \A kh \in HashSpace :
            owner_of(ring, vnode_map, kh)
                = owner_of(round_trip.ring, round_trip.vnode_map, kh)

Min(a, b) == IF a < b THEN a ELSE b

requested_replicas == IF op.replica_count = <<>> THEN replication_factor
                      ELSE op.replica_count[1]

\* C5: on a non-empty ring get_nodes_for_key(key, R) returns, and what it
\* returns is min(R, number of registered nodes) pairwise distinct node ids.
ReplicasExactAndDistinct ==
    (op.name = "get_nodes_for_key" /\ ring # <<>>) =>
        /\ ret.terminates
        /\ Len(ret.value) = Min(requested_replicas, Cardinality(DOMAIN nodes))
        /\ Cardinality(Range(ret.value)) = Len(ret.value)

\* C6: the list ring is strictly ascending after every add_node and
\* remove_node.
RingStrictlyAscending ==
    \A i \in 1..(Len(ring) - 1) : ring[i] < ring[i + 1]

RingSortedAfterCollision ==
    /\ Added
    /\ "collision" \in ret.warnings
    /\ Len(ring) >= 3

\* C7: the keys of vnode_map are exactly the values of ring, and the two have
\* the same length.
MapKeysAreRingValues ==
    /\ DOMAIN vnode_map = Range(ring)
    /\ Len(ring) = Cardinality(DOMAIN vnode_map)

MapAndRingAfterRemoval ==
    /\ Removed
    /\ Len(ring) >= 2
    /\ Cardinality(DOMAIN nodes) = 1

\* the ring entries at or after a key hash
at_or_after(r, key_hash) == {h \in Range(r) : h >= key_hash}

Least(S) == CHOOSE x \in S : \A y \in S : x <= y

\* C8: on a non-empty ring get_node(key) returns the owner of the smallest ring
\* entry >= hash(key), and the owner of the smallest ring entry when the hash
\* is above every entry.
GetNodeLandsOnSuccessor ==
    (op.name = "get_node" /\ ring # <<>>) =>
        LET key_hash == hash_function[op.key]
        IN  ret.value = IF at_or_after(ring, key_hash) # {}
                        THEN <<vnode_map[Least(at_or_after(ring, key_hash))]>>
                        ELSE <<vnode_map[Least(Range(ring))]>>

GetNodeWrapped ==
    /\ op.name = "get_node"
    /\ Len(ring) >= 2
    /\ at_or_after(ring, hash_function[op.key]) = {}
    /\ Cardinality({vnode_map[h] : h \in DOMAIN vnode_map}) = 2

\* C9: when add_node admits x into a non-empty ring, every key whose owner
\* changes is owned by x afterwards.
JoinMovesKeysOnlyToNewNode ==
    [][(op'.name = "add_node" /\ op'.node_id \notin DOMAIN nodes /\ ring # <<>>) =>
          \A kh \in HashSpace :
              lookup(ring', vnode_map', kh) # lookup(ring, vnode_map, kh) =>
                  lookup(ring', vnode_map', kh) = op'.node_id]_vars

JoinedBesideTwoOwners ==
    /\ Added
    /\ "collision" \in ret.warnings
    /\ owned(vnode_map, op.node_id) # {}
    /\ Cardinality({vnode_map[h] : h \in DOMAIN vnode_map} \ {op.node_id}) = 2
    /\ \E kh \in HashSpace : lookup(ring, vnode_map, kh) = op.node_id

\* C10: when remove_node removes a registered n, every key owned by another
\* node keeps its owner, and while other nodes remain every key that n owned
\* is owned by a registered node afterwards.
RemovalMovesOnlyRemovedNodesKeys ==
    [][(op'.name = "remove_node" /\ op'.node_id \in DOMAIN nodes) =>
          \A kh \in HashSpace :
              /\ owner_of(ring, vnode_map, kh) # <<op'.node_id>> =>
                     owner_of(ring', vnode_map', kh) = owner_of(ring, vnode_map, kh)
              /\ (owner_of(ring, vnode_map, kh) = <<op'.node_id>>
                     /\ DOMAIN nodes' # {}) =>
                     /\ owner_of(ring', vnode_map', kh) # <<>>
                     /\ owner_of(ring', vnode_map', kh)[1] \in DOMAIN nodes']_vars

\* the ring entries in clockwise order from the entry a key hash lands on
clockwise(r, key_hash) ==
    LET first == IF at_or_after(r, key_hash) # {}
                 THEN Least(at_or_after(r, key_hash))
                 ELSE Least(Range(r))
        below == SelectSeq(r, LAMBDA h : h < first)
        above == SelectSeq(r, LAMBDA h : h >= first)
    IN  above \o below

\* the owners of a sequence of hashes, each at its first occurrence only
RECURSIVE first_owners(_, _, _)
first_owners(hashes, vmap, seen) ==
    IF hashes = <<>> THEN seen
    ELSE first_owners(Tail(hashes), vmap,
                      IF vmap[Head(hashes)] \in Range(seen) THEN seen
                      ELSE Append(seen, vmap[Head(hashes)]))

\* C11: what get_nodes_for_key(key, R) returns is a prefix of the owners met
\* clockwise from the landing entry of hash(key), each at its first
\* occurrence; for R >= 1 on a non-empty ring its first element is what
\* get_node(key) returns.
ReplicasClockwiseFromLanding ==
    (op.name = "get_nodes_for_key" /\ ring # <<>> /\ ret.terminates) =>
        LET key_hash == hash_function[op.key]
            order == first_owners(clockwise(ring, key_hash), vnode_map, <<>>)
        IN  /\ Len(ret.value) <= Len(order)
            /\ ret.value = SubSeq(order, 1, Len(ret.value))
            /\ requested_replicas >= 1 =>
                   /\ ret.value # <<>>
                   /\ <<ret.value[1]>> = owner_of(ring, vnode_map, key_hash)

\* C12: add_node for an id already in the registry, whatever the weight, and
\* remove_node for an id not in the registry return and leave ring, vnode_map
\* and nodes, the stored weight included, as they were.
NoOpLeavesStateUnchanged ==
    [][((op'.name = "add_node" /\ op'.node_id \in DOMAIN nodes)
        \/ (op'.name = "remove_node" /\ op'.node_id \notin DOMAIN nodes))
       => /\ ret'.terminates
          /\ ring' = ring
          /\ vnode_map' = vnode_map
          /\ nodes' = nodes]_vars

\* remove_node of an unknown id has returned while another node holds the ring
UnknownRemovalBesideOwner ==
    /\ op.name = "remove_node"
    /\ "does not exist" \in ret.warnings
    /\ ring # <<>>
    /\ nodes # EmptyMap

\* C13: on an empty ring get_node returns None and get_nodes_for_key returns
\* the empty list, for every key and replica count, and the call changes
\* nothing; on a non-empty ring get_node returns a node id, and the ring entry
\* any key hash lands on is a key of vnode_map.
EmptyRingAndLookupResults ==
    /\ []( /\ (op.name = "get_node" /\ ring = <<>>)
               => ret = Returned(<<>>, {"no nodes"})
           /\ (op.name = "get_nodes_for_key" /\ ring = <<>>)
               => ret = Returned(<<>>, {"no nodes"})
           /\ (op.name = "get_node" /\ ring # <<>>)
               => /\ ret.terminates
                  /\ Len(ret.value) = 1
                  /\ ret.value[1] \in NodeIds
           /\ ring # <<>>
               => \A key_hash \in HashSpace :
                      ring[landing_idx(ring, key_hash) + 1] \in DOMAIN vnode_map)
    /\ [][(ring = <<>> /\ op'.name \in {"get_node", "get_nodes_for_key"})
           => /\ ring' = ring
              /\ vnode_map' = vnode_map
              /\ nodes' = nodes]_vars

\* get_node has answered on a ring of two or more entries
GetNodeAnsweredOnRing ==
    /\ op.name = "get_node"
    /\ Len(ring) >= 2
    /\ ret.value # <<>>
    /\ ret.value[1] \in DOMAIN nodes

RemovalFindsEveryVnode ==
    op.name = "remove_node" => "not found during removal" \notin ret.warnings

\* C20: remove_node(n) leaves every hash owned by another node in the ring and
\* mapped to that node, and leaves the registry entries of the other nodes as
\* they were; add_node(x) neither removes nor re-assigns a hash that another
\* node owns.
OtherNodesUntouched ==
    [][/\ op'.name \in {"add_node", "remove_node"}
          => \A vnode_hash \in DOMAIN vnode_map :
                 vnode_map[vnode_hash] # op'.node_id
                 => /\ vnode_hash \in Range(ring')
                    /\ vnode_hash \in DOMAIN vnode_map'
                    /\ vnode_map'[vnode_hash] = vnode_map[vnode_hash]
       /\ op'.name = "remove_node"
          => \A m \in DOMAIN nodes \ {op'.node_id} :
                 m \in DOMAIN nodes' /\ nodes'[m] = nodes[m]]_vars

\* a node has been removed from beside two others that keep their hashes
RemovedBesideTwoOwners ==
    /\ op.name = "remove_node"
    /\ "does not exist" \notin ret.warnings
    /\ Cardinality(DOMAIN nodes) = 2
    /\ Cardinality(Range(vnode_map)) >= 2
    /\ Range(vnode_map) \subseteq DOMAIN nodes

\* C15: at most one thread is inside an operation body at a time, and a query
\* reads ring and vnode_map only while the ring is sorted and its entries are
\* the keys of vnode_map: the states inside add_node's append loop and
\* remove_node's rebuild are never what a query sees.
QueriesSeeNoIntermediateState ==
    /\ [](Cardinality({t \in Threads : frame[t] # NoFrame}) <= 1)
    /\ [][(\/ frame' = frame /\ op'.name \in {"get_node", "get_nodes_for_key"}
           \/ \E t \in Threads : /\ frame[t] = NoFrame
                                  /\ frame'[t].line = "get_nodes_for_key.while")
          => /\ \A j \in 1..(Len(ring) - 1) : ring[j] < ring[j + 1]
             /\ DOMAIN vnode_map = Range(ring)]_vars

\* a thread is inside add_node's loop, the ring unsorted, the lock held
UnsortedInsideAppendLoop ==
    /\ lock
    /\ \E t \in Threads : at(t, "add_node.for")
    /\ \E j \in 1..(Len(ring) - 1) : ring[j] > ring[j + 1]

\* C16: once every thread of test_concurrency has finished, the registry
\* holds the initial nodes that no thread removed and the nodes the threads
\* added, and ring and vnode_map have the same, positive, number of entries.
WorkersLeaveExpectedRegistry ==
    (\A t \in Threads : worker[t].next = "done")
    => /\ DOMAIN nodes = (NodeIds \ {worker[t].node_id_to_remove : t \in Threads})
                         \cup {worker[t].node_id_to_add : t \in Threads}
       /\ Len(ring) = Cardinality(DOMAIN vnode_map)
       /\ Len(ring) > 0

\* every thread has finished, and two threads removed the same node
WorkersDoneSameRemoval ==
    /\ \A t \in Threads : worker[t].next = "done"
    /\ \E t, u \in Threads :
           t # u /\ worker[t].node_id_to_remove = worker[u].node_id_to_remove

\* C17: the lock is held exactly while some thread is inside an operation
\* body, and a call that takes an early return (duplicate add, unknown remove,
\* lookup on an empty ring) leaves the lock free.
LockHeldOnlyInsideBody ==
    /\ [](lock <=> \E t \in Threads : frame[t] # NoFrame)
    /\ [][(/\ frame' = frame
           /\ ret'.warnings \cap {"already exists", "does not exist", "no nodes"} # {})
          => ~lock']_vars

\* a duplicate add_node has returned early and the lock is free
DuplicateAddLeftLockFree ==
    /\ op.name = "add_node"
    /\ "already exists" \in ret.warnings
    /\ ~lock
    /\ \A t \in Threads : frame[t] = NoFrame

\* C18: every call that has taken the lock leaves its loops and releases the
\* lock: no thread stays in the while loop of get_nodes_for_key for ever.
EveryCallLeavesItsLoop ==
    \A t \in Threads : frame[t].line # "get_nodes_for_key.while"

====
